---- MODULE Spec2Model ----
(***************************************************************************)
(* Productivity Hub (src/.py): the task store, the scheduler/ranker        *)
(* (sort_tasks, count_overdue, suggest_task_obj) and the Pomodoro focus    *)
(* session engine of ProductivityApp (start_pomodoro, update_timer,        *)
(* stop_pomodoro), driven by Tk's after() callbacks.                       *)
(*                                                                         *)
(* Text values.  A date text "YYYY-MM-DD" is the tuple <<y, m, d>> of its  *)
(* three numeric fields and the empty text is <<>>; strptime's work (is    *)
(* this a calendar date, and which one) is done by parse_date on that      *)
(* tuple.  A dict is a record whose DOMAIN is its set of keys, so a key    *)
(* that is missing from a task is missing from the record.                 *)
(***************************************************************************)
EXTENDS Integers, Sequences, FiniteSets, TLC

VARIABLES
    tasks,          \* global list of task dicts (line 9)
    stats,          \* global {"total_pomodoros", "daily_streaks"} (line 10)
    timer_running,  \* ProductivityApp.timer_running
    phase,          \* ProductivityApp.phase: "Idle", "Work", "Break"
    remaining,      \* ProductivityApp.remaining (seconds)
    work_seconds,   \* ProductivityApp.work_seconds
    break_seconds,  \* ProductivityApp.break_seconds
    current_task,   \* ProductivityApp.current_task (a task name, "" at first)
    scheduled,      \* number of update_timer callbacks pending in Tk's after() queue
    modal,          \* stack of handlers waiting in a message box: "Work", "Break"
                    \* (update_timer in showinfo), "Confirm" (delete_task in askyesno)
    dialog,         \* the TaskDialog that is open (NoDialog: none)
    confirm,        \* id of the task delete_task asks about (0: no question open)
    today,          \* datetime.date.today(), as <<y, m, d>>
    next_id,        \* the next fresh task id (uuid4 never repeats)
    ticks,          \* history: timer callbacks run in the session's current phase
    credits,        \* history: completions committed for the session since its Start
    session_ref,    \* history: id of the task the Start's name resolved to (0: none)
    out,            \* result of the last ranker / summary query (its input hour included)
    disk            \* the JSON document in DATA_FILE (NoFile: the file does not exist)

vars == <<tasks, stats, timer_running, phase, remaining, work_seconds,
          break_seconds, current_task, scheduled, modal, today, next_id,
          ticks, credits, session_ref, out, disk, dialog, confirm>>

None == [none |-> TRUE]

\* `out` before any query
NoQuery == [op |-> "none"]

\* os.path.exists(DATA_FILE) is false
NoDialog == [title |-> ""]
NoFile == [exists |-> FALSE]

\* ------------------------------------------------------------------ bounds
MaxTasks == 2
MaxSessions == 1
MaxScheduled == 2
MaxDays == 1
MaxSortLen == 3
MaxSuggestLen == 2
MaxOverdueLen == 3
MaxStoreTasks == 1
MaxStoreSessions == 1
MaxLedgerTasks == 2
MaxLedgerSessions == 2
MaxStreak == 2

\* --------------------------------------------------------------- constants
SecondsPerMinute == 60
DefaultWorkMinutes == 25
DefaultBreakMinutes == 5
FarFutureDays == 9999
OverdueScore == -100
NoDueDays == 9999
DefaultRank == 3
SummaryDays == 7
TopPendingShown == 5

CATEGORIES == <<"School", "Chores", "Health", "Work", "Personal">>
PRIORITIES == <<"High", "Medium", "Low">>
PRIORITY_ORDER == [High |-> 1, Medium |-> 2, Low |-> 3]

\* ----------------------------------------------------------------- helpers
\* dict.get(k, d)
Get(t, k, d) == IF k \in DOMAIN t THEN t[k] ELSE d

Range(s) == {s[i] : i \in 1..Len(s)}

IsLeap(y) == (y % 4 = 0) /\ ((y % 100 # 0) \/ (y % 400 = 0))

DaysInMonth(y, m) ==
    IF m = 2 THEN (IF IsLeap(y) THEN 29 ELSE 28)
    ELSE IF m \in {4, 6, 9, 11} THEN 30 ELSE 31

RECURSIVE DaysBeforeMonth(_, _)
DaysBeforeMonth(y, m) ==
    IF m <= 1 THEN 0 ELSE DaysBeforeMonth(y, m - 1) + DaysInMonth(y, m - 1)

\* datetime.date.toordinal
ToOrdinal(d) ==
    LET y1 == d[1] - 1
    IN  y1 * 365 + (y1 \div 4) - (y1 \div 100) + (y1 \div 400)
        + DaysBeforeMonth(d[1], d[2]) + d[3]

\* date + timedelta(days=1)
NextDate(d) ==
    IF d[3] < DaysInMonth(d[1], d[2]) THEN <<d[1], d[2], d[3] + 1>>
    ELSE IF d[2] < 12 THEN <<d[1], d[2] + 1, 1>>
    ELSE <<d[1] + 1, 1, 1>>

\* date - timedelta(days=1)
PrevDate(d) ==
    IF d[3] > 1 THEN <<d[1], d[2], d[3] - 1>>
    ELSE IF d[2] > 1 THEN <<d[1], d[2] - 1, DaysInMonth(d[1], d[2] - 1)>>
    ELSE <<d[1] - 1, 12, 31>>

\* today_str(): strftime("%Y-%m-%d") of a date is the text of its fields
today_str(d) == <<d[1], d[2], d[3]>>

\* parse_date(s): the date the text names (held as its ordinal), None for the
\* empty text and for a text strptime rejects (ValueError)
parse_date(s) ==
    IF s = <<>> THEN None
    ELSE IF /\ Len(s) = 3
            /\ s[1] \in 1..9999
            /\ s[2] \in 1..12
            /\ s[3] \in 1..DaysInMonth(s[1], s[2])
         THEN [none |-> FALSE, ordinal |-> ToOrdinal(s)]
         ELSE None

\* format_due(s)
format_due(s) == IF s # <<>> THEN s ELSE "No deadline"

\* ------------------------------------------------------------ list sorting
\* Python compares key tuples lexicographically (False < True is 0 < 1).
RECURSIVE KeyLess(_, _)
KeyLess(a, b) ==
    IF a = <<>> \/ b = <<>> THEN FALSE
    ELSE IF a[1] # b[1] THEN a[1] < b[1]
    ELSE KeyLess(Tail(a), Tail(b))

\* an insertion that puts x before the elements of equal key
RECURSIVE InsertBeforeEqual(_, _)
InsertBeforeEqual(s, x) ==
    IF s = <<>> THEN <<x>>
    ELSE IF ~KeyLess(Head(s).key, x.key) THEN <<x>> \o s
    ELSE <<Head(s)>> \o InsertBeforeEqual(Tail(s), x)

\* One insertion of sorted(): x goes after every element whose key is not
\* greater than its own, so equal keys keep their input order.
RECURSIVE InsertByKey(_, _)
InsertByKey(s, x) ==
    IF s = <<>> THEN <<x>>
    ELSE IF KeyLess(x.key, Head(s).key) THEN <<x>> \o s
    ELSE <<Head(s)>> \o InsertByKey(Tail(s), x)

RECURSIVE SortPairs(_)
SortPairs(s) ==
    IF s = <<>> THEN <<>>
    ELSE InsertByKey(SortPairs(SubSeq(s, 1, Len(s) - 1)), s[Len(s)])

\* sorted(items, key=...) with keys[i] the key of items[i]
RECURSIVE ItemsOf(_)
ItemsOf(s) == IF s = <<>> THEN <<>> ELSE <<Head(s).item>> \o ItemsOf(Tail(s))

Sorted(items, keys) ==
    ItemsOf(SortPairs([i \in 1..Len(items) |-> [key |-> keys[i], item |-> items[i]]]))

\* ---------------------------------------------------------- Scheduler/Ranker
\* the rank with "Low" as the default of a missing priority
PriorityRankDefaultLow(t) ==
    LET p == Get(t, "priority", "Low")
    IN  IF p \in DOMAIN PRIORITY_ORDER THEN PRIORITY_ORDER[p] ELSE DefaultRank

\* PRIORITY_ORDER.get(t.get("priority", "Medium"), 3)
PriorityRank(t) ==
    LET p == Get(t, "priority", "Medium")
    IN  IF p \in DOMAIN PRIORITY_ORDER THEN PRIORITY_ORDER[p] ELSE DefaultRank

\* sort_tasks.key(t): (done, due date or far_future, priority rank)
SortKey(t, day) ==
    LET pd == parse_date(Get(t, "due", <<>>))
        far_future == ToOrdinal(day) + FarFutureDays
        d == IF pd # None THEN pd.ordinal ELSE far_future
    IN  <<IF Get(t, "done", FALSE) THEN 1 ELSE 0, d, PriorityRank(t)>>

\* sort_tasks with the key (due, rank), the done flag left out
sort_tasks_no_done(task_list, day) ==
    Sorted(task_list,
           [i \in 1..Len(task_list) |-> Tail(SortKey(task_list[i], day))])

sort_tasks(task_list, day) ==
    Sorted(task_list, [i \in 1..Len(task_list) |-> SortKey(task_list[i], day)])

\* [t for t in tasks if not t.get("done", False)]
Pending(task_list) == SelectSeq(task_list, LAMBDA t : ~Get(t, "done", FALSE))

\* cat_bonus for the hour, in tenths
CatBonus(hour) ==
    IF 6 <= hour /\ hour < 12 THEN [School |-> -5, Work |-> -5]
    ELSE IF 12 <= hour /\ hour < 18 THEN [Chores |-> -5, Personal |-> -3]
    ELSE [Health |-> -5, Personal |-> -3]

\* the due term without the overdue constant
DueTermPlain(due_days) == due_days

\* the due term of the score: due_days if due_days >= 0 else -100
DueTerm(due_days) == IF due_days >= 0 THEN due_days ELSE OverdueScore

\* suggest_task_obj.score(t), in tenths (the bonuses are -0.5 and -0.3)
Score(t, day, hour) ==
    LET d == parse_date(Get(t, "due", <<>>))
        due_days == IF d # None THEN d.ordinal - ToOrdinal(day) ELSE NoDueDays
        bonus == CatBonus(hour)
        c == Get(t, "category", "")
    IN  10 * DueTerm(due_days) + 10 * PriorityRank(t)
        + (IF c \in DOMAIN bonus THEN bonus[c] ELSE 0)

suggest_task_obj(task_list, day, hour) ==
    LET pending == Pending(task_list)
    IN  IF pending = <<>> THEN None
        ELSE Sorted(pending,
                    [i \in 1..Len(pending) |-> <<Score(pending[i], day, hour)>>])[1]

\* the test of count_overdue with "not after today" for "before today"
IsCountedThroughToday(t, day) ==
    LET d == parse_date(Get(t, "due", <<>>))
    IN  ~Get(t, "done", FALSE) /\ d # None /\ d.ordinal <= ToOrdinal(day)

\* count_overdue's test of one task (line 62): not done, a due text that
\* parses, and that date before today
IsCounted(t, day) ==
    LET d == parse_date(Get(t, "due", <<>>))
    IN  ~Get(t, "done", FALSE) /\ d # None /\ d.ordinal < ToOrdinal(day)

\* count_overdue(): sum(1 for t in tasks if ...)
RECURSIVE count_overdue(_, _)
count_overdue(task_list, day) ==
    IF task_list = <<>> THEN 0
    ELSE (IF IsCounted(Head(task_list), day) THEN 1 ELSE 0)
         + count_overdue(Tail(task_list), day)

\* ------------------------------------------------------------------ Summary
\* today - datetime.timedelta(days=i)
RECURSIVE DaysBefore(_, _)
DaysBefore(d, i) == IF i = 0 THEN d ELSE DaysBefore(PrevDate(d), i - 1)

\* s[::-1]
Reversed(s) == [i \in 1..Len(s) |-> s[Len(s) + 1 - i]]

\* the streak lines in the order the loop of lines 437-439 builds them
last7_newest_first(st, day) ==
    [k \in 1..SummaryDays |->
        LET d == today_str(DaysBefore(day, k - 1))
        IN  [day |-> d, count |-> Get(st.daily_streaks, d, 0)]]

\* the streak lines as the summary shows them: last7[::-1] (lines 436-449),
\* a line "d: n" held as [day |-> d, count |-> n]
last7(st, day) == Reversed(last7_newest_first(st, day))

\* s[:n]
FirstN(s, n) == SubSeq(s, 1, IF Len(s) < n THEN Len(s) ELSE n)

\* t[key] of a task that has no such key
KeyError == [raised |-> "KeyError"]

\* the keys line 454 reads with t[...] for a line of "Top pending tasks"
TopLineKeys == {"name", "category", "priority", "due"}

\* refresh_summary(): what the summary text shows, or KeyError when a task
\* among the top pending ones lacks a key of its line (the text is then not
\* written)
refresh_summary(task_list, st, day) ==
    LET done == Len(SelectSeq(task_list, LAMBDA t : Get(t, "done", FALSE)))
        top == FirstN(sort_tasks(Pending(task_list), day), TopPendingShown)
    IN  IF \E i \in 1..Len(top) : ~(TopLineKeys \subseteq DOMAIN top[i])
        THEN KeyError
        ELSE [total |-> Len(task_list),
              done |-> done,
              pending |-> Len(task_list) - done,
              overdue |-> count_overdue(task_list, day),
              total_poms |-> Get(st, "total_pomodoros", 0),
              last7 |-> last7(st, day),
              top |-> top]

\* -------------------------------------------------------------- Persistence
\* the stats a run without a data file starts from (line 10)
DefaultStats == [total_pomodoros |-> 0, daily_streaks |-> <<>>]

\* a save_data() that writes the tasks and leaves the stats out of the document
save_data_tasks_only(task_list, st) ==
    [exists |-> TRUE, data |-> [tasks |-> task_list]]

\* save_data(): the document json.dump writes over DATA_FILE
save_data(task_list, st) ==
    [exists |-> TRUE, data |-> [tasks |-> task_list, stats |-> st]]

\* load_data(): the tasks and stats a run starts with, given the file
load_data(file) ==
    IF ~file.exists THEN [tasks |-> <<>>, stats |-> DefaultStats]
    ELSE [tasks |-> Get(file.data, "tasks", <<>>),
          stats |-> Get(file.data, "stats", DefaultStats)]

\* -------------------------------------------------------------- Task store
\* index of the first task for which the name matches (0: none): the loop
\* "for t in tasks: if t["name"] == ...: ...; break"
RECURSIVE FirstNamed(_, _, _)
FirstNamed(task_list, name, i) ==
    IF i > Len(task_list) THEN 0
    ELSE IF task_list[i].name = name THEN i
    ELSE FirstNamed(task_list, name, i + 1)

\* get_selected_task(): index of the task whose id is the tree's selection
RECURSIVE IndexOfId(_, _, _)
IndexOfId(task_list, tid, i) ==
    IF i > Len(task_list) THEN 0
    ELSE IF task_list[i].id = tid THEN i
    ELSE IndexOfId(task_list, tid, i + 1)

\* tasks.remove(t)
RemoveAt(task_list, i) ==
    SubSeq(task_list, 1, i - 1) \o SubSeq(task_list, i + 1, Len(task_list))

\* refresh_study_combo(): the names the combobox offers
ComboValues(task_list) ==
    LET pending == Pending(task_list)
    IN  [i \in 1..Len(pending) |-> pending[i].name]

\* self.study_var.get() at a click on Start: refresh_study_combo() runs after
\* every change of the list and sets it to the first pending name ("" when
\* there is none); the user may then pick any offered name
StudyVarChoices(task_list) ==
    IF ComboValues(task_list) = <<>> THEN {""} ELSE Range(ComboValues(task_list))

\* str.strip() on the texts the dialog is given here
Strip(s) == IF s = " " THEN "" ELSE s

\* int(s): the integer a text denotes, on the texts the entries are given here
IntTexts == {"0", "1", "2", "-1"}
IntOf(s) ==
    CASE s = "0" -> 0 [] s = "1" -> 1 [] s = "2" -> 2 [] s = "-1" -> -1

\* int(entry.get() or default) * 60; ValueError is [ok |-> FALSE]
ParseMinutes(s, default) ==
    IF s = "" THEN [ok |-> TRUE, seconds |-> default * SecondsPerMinute]
    ELSE IF s \in IntTexts THEN [ok |-> TRUE, seconds |-> IntOf(s) * SecondsPerMinute]
    ELSE [ok |-> FALSE]

\* ---------------------------------------------------- Focus session engine
\* The study-tab fields of ProductivityApp with Tk's pending callbacks and open
\* message boxes, as one record.
Engine ==
    [timer_running |-> timer_running, phase |-> phase, remaining |-> remaining,
     work_seconds |-> work_seconds, break_seconds |-> break_seconds,
     current_task |-> current_task, scheduled |-> scheduled, modal |-> modal]

\* update_timer() without its first two lines, the timer_running check
update_timer_unguarded(e) ==
    IF e.remaining > 0
    THEN [e EXCEPT !.remaining = @ - 1, !.scheduled = @ + 1]
    ELSE IF e.phase = "Work"
         THEN [e EXCEPT !.modal = Append(@, "Work")]
    ELSE [e EXCEPT !.modal = Append(@, "Break")]

\* update_timer() up to its return or to the messagebox it opens (lines 378-393).
\* showinfo runs a nested event loop until the box is dismissed: the activation
\* waits on top of `modal` until then, and pending callbacks still run.
update_timer(e) ==
    IF ~e.timer_running THEN e
    ELSE IF e.remaining > 0
         THEN [e EXCEPT !.remaining = @ - 1, !.scheduled = @ + 1]
    ELSE IF e.phase = "Work"
         THEN [e EXCEPT !.modal = Append(@, "Work")]
    ELSE [e EXCEPT !.modal = Append(@, "Break")]

\* update_timer() after "Work block complete!" is dismissed (lines 389-391)
ContinueIntoBreak(e) ==
    update_timer([e EXCEPT !.phase = "Break", !.remaining = e.break_seconds])

\* update_timer() after "Break complete!" is dismissed: reset (lines 405-407)
ResetTimer(e) ==
    [e EXCEPT !.timer_running = FALSE, !.phase = "Idle", !.remaining = 0]

\* stop_pomodoro()
stop_pomodoro(e) ==
    [e EXCEPT !.timer_running = FALSE, !.phase = "Idle", !.remaining = 0]

\* start_pomodoro() with task_name the combobox's text and w, b the entries'
start_pomodoro(e, task_name, w, b) ==
    LET e0 == IF e.timer_running THEN stop_pomodoro(e) ELSE e
        pw == ParseMinutes(w, DefaultWorkMinutes)
        pb == ParseMinutes(b, DefaultBreakMinutes)
    IN  IF task_name = "" THEN e0
        ELSE IF ~pw.ok THEN e0
        ELSE IF ~pb.ok THEN [e0 EXCEPT !.work_seconds = pw.seconds]
        ELSE update_timer([e0 EXCEPT !.work_seconds = pw.seconds,
                                     !.break_seconds = pb.seconds,
                                     !.current_task = task_name,
                                     !.phase = "Work",
                                     !.remaining = pw.seconds,
                                     !.timer_running = TRUE])

\* whether start_pomodoro() gets past its two checks
StartAccepted(task_name, w, b) ==
    /\ task_name # ""
    /\ ParseMinutes(w, DefaultWorkMinutes).ok
    /\ ParseMinutes(b, DefaultBreakMinutes).ok

\* the loop of lines 395-398 without its break: every task of the name is
\* credited
LogTaskEveryMatch(task_list, name) ==
    [i \in 1..Len(task_list) |->
        IF task_list[i].name = name
        THEN [k \in DOMAIN task_list[i] \cup {"pomodoros"} |->
                 IF k = "pomodoros"
                 THEN Get(task_list[i], "pomodoros", 0) + 1
                 ELSE task_list[i][k]]
        ELSE task_list[i]]

\* The completion's "Log stats" block (lines 394-401)
LogTask(task_list, name) ==
    LET i == FirstNamed(task_list, name, 1)
    IN  IF i = 0 THEN task_list
        ELSE [task_list EXCEPT ![i] =
                 [k \in DOMAIN @ \cup {"pomodoros"} |->
                     IF k = "pomodoros"
                     THEN Get(task_list[i], "pomodoros", 0) + 1
                     ELSE @[k]]]

LogStats(st, day) ==
    LET key == today_str(day)
        streaks == st.daily_streaks
        old == IF key \in DOMAIN streaks THEN streaks[key] ELSE 0
    IN  [total_pomodoros |-> st.total_pomodoros + 1,
         daily_streaks |-> [k \in DOMAIN streaks \cup {key} |->
                               IF k = key THEN old + 1 ELSE streaks[k]]]

SetEngine(e) ==
    /\ timer_running' = e.timer_running
    /\ phase' = e.phase
    /\ remaining' = e.remaining
    /\ work_seconds' = e.work_seconds
    /\ break_seconds' = e.break_seconds
    /\ current_task' = e.current_task
    /\ scheduled' = e.scheduled
    /\ modal' = e.modal

engine_vars == <<timer_running, phase, remaining, work_seconds, break_seconds,
                 current_task, scheduled, modal>>
history_vars == <<ticks, credits, session_ref>>
dialog_vars == <<dialog, confirm>>

\* ------------------------------------------------------------------ inputs
StartDay == <<2026, 10, 31>>
EntryTexts == {"1", "x"}
SessionEntryTexts == {"1", "0", "-1", "x"}
DialogNames == {"a", "b", "", " "}
DialogCategories == {"Personal"}
DialogPriorities == {"Medium"}
DialogDues == {<<>>, <<2026, 2, 30>>}

\* ------------------------------------------------------------------- state
Init ==
    /\ tasks = <<>>
    /\ stats = [total_pomodoros |-> 0, daily_streaks |-> <<>>]
    /\ timer_running = FALSE
    /\ phase = "Idle"
    /\ remaining = 0
    /\ work_seconds = 0
    /\ break_seconds = 0
    /\ current_task = ""
    /\ scheduled = 0
    /\ modal = <<>>
    /\ dialog = NoDialog
    /\ confirm = 0
    /\ today = StartDay
    /\ next_id = 1
    /\ ticks = 0
    /\ credits = 0
    /\ session_ref = 0
    /\ out = NoQuery
    /\ disk = NoFile

\* ----------------------------------------------------------------- actions
\* The user clicks "Start Pomodoro", the two entries holding texts of
\* `entries`, while fewer than `chains` callbacks are pending and fewer than
\* `sessions` completions are logged.
StartBounded(entries, chains, sessions) ==
    /\ modal = <<>>
    /\ dialog = NoDialog
    /\ scheduled < chains
    /\ stats.total_pomodoros < sessions
    /\ \E task_name \in StudyVarChoices(tasks), w \in entries, b \in entries :
          /\ SetEngine(start_pomodoro(Engine, task_name, w, b))
          /\ IF StartAccepted(task_name, w, b)
             THEN /\ ticks' = 0
                  /\ credits' = 0
                  /\ session_ref' = tasks[FirstNamed(tasks, task_name, 1)].id
             ELSE IF timer_running
                  THEN ticks' = 0 /\ session_ref' = 0 /\ UNCHANGED credits
                  ELSE UNCHANGED history_vars
    /\ UNCHANGED <<tasks, stats, today, next_id, out, disk, dialog_vars>>

StartWith(entries) == StartBounded(entries, MaxScheduled, MaxSessions)

StartPomodoro == StartWith(EntryTexts)

StartSession == StartWith(SessionEntryTexts)

\* The user clicks "Stop".
StopPomodoro ==
    /\ modal = <<>>
    /\ dialog = NoDialog
    /\ SetEngine(stop_pomodoro(Engine))
    /\ ticks' = 0
    /\ session_ref' = 0
    /\ UNCHANGED <<tasks, stats, today, next_id, credits, out, disk, dialog_vars>>

\* Tk runs one pending after() callback: update_timer().
TimerCallback ==
    /\ scheduled > 0
    /\ SetEngine(update_timer([Engine EXCEPT !.scheduled = @ - 1]))
    /\ ticks' = IF timer_running THEN ticks + 1 ELSE ticks
    /\ UNCHANGED <<tasks, stats, today, next_id, credits, session_ref, out, disk, dialog_vars>>

\* The user dismisses the topmost message box; its update_timer() goes on.
DismissWorkBox ==
    /\ modal # <<>>
    /\ modal[Len(modal)] = "Work"
    /\ SetEngine(ContinueIntoBreak([Engine EXCEPT !.modal = SubSeq(@, 1, Len(@) - 1)]))
    /\ ticks' = 0
    /\ UNCHANGED <<tasks, stats, today, next_id, credits, session_ref, out, disk, dialog_vars>>

DismissBreakBox ==
    /\ modal # <<>>
    /\ modal[Len(modal)] = "Break"
    /\ tasks' = LogTask(tasks, current_task)
    /\ stats' = LogStats(stats, today)
    /\ disk' = save_data(tasks', stats')
    /\ SetEngine(ResetTimer([Engine EXCEPT !.modal = SubSeq(@, 1, Len(@) - 1)]))
    /\ credits' = credits + 1
    /\ UNCHANGED <<today, next_id, ticks, session_ref, out, dialog_vars>>

\* whether TaskDialog.on_ok() gets past its two checks (lines 128-137)
on_ok_accepts(name_text, due_text) ==
    /\ Strip(name_text) # ""
    /\ ~(due_text # <<>> /\ parse_date(due_text) = None)

\* TaskDialog.on_ok() of "Add Task": the texts of the four fields.
on_ok_add(task_list, tid, name_text, category, priority, due_text) ==
    LET name == Strip(name_text)
    IN  IF name = "" THEN task_list
        ELSE IF due_text # <<>> /\ parse_date(due_text) = None THEN task_list
        ELSE Append(task_list,
                    [id |-> tid, name |-> name, category |-> category,
                     priority |-> priority, due |-> due_text, done |-> FALSE,
                     pomodoros |-> 0])

\* an edit that builds the task anew, as an add does, under the old id
on_ok_edit_rebuild(task_list, i, name_text, category, priority, due_text) ==
    LET name == Strip(name_text)
    IN  IF name = "" THEN task_list
        ELSE IF due_text # <<>> /\ parse_date(due_text) = None THEN task_list
        ELSE [task_list EXCEPT ![i] =
                 [id |-> task_list[i].id, name |-> name, category |-> category,
                  priority |-> priority, due |-> due_text, done |-> FALSE,
                  pomodoros |-> 0]]

\* TaskDialog.on_ok() of "Edit Task" on the task at index i
on_ok_edit(task_list, i, name_text, category, priority, due_text) ==
    LET name == Strip(name_text)
    IN  IF name = "" THEN task_list
        ELSE IF due_text # <<>> /\ parse_date(due_text) = None THEN task_list
        ELSE [task_list EXCEPT ![i] =
                 [@ EXCEPT !.name = name, !.category = category,
                           !.priority = priority, !.due = due_text]]

\* add_task(): "Add Task" opens the dialog, while fewer than `most` tasks
\* were ever added.  The dialog takes the grab; the handler returns.
AddTaskUpTo(most) ==
    /\ modal = <<>>
    /\ dialog = NoDialog
    /\ next_id <= most
    /\ dialog' = [title |-> "Add Task"]
    /\ UNCHANGED <<tasks, stats, engine_vars, today, next_id, history_vars, out,
                   disk, confirm>>

AddTask == AddTaskUpTo(MaxTasks)

\* edit_task(): "Edit" on a selected task opens the dialog on that task.
EditTask ==
    /\ modal = <<>>
    /\ dialog = NoDialog
    /\ \E i \in 1..Len(tasks) : dialog' = [title |-> "Edit Task", task |-> tasks[i].id]
    /\ UNCHANGED <<tasks, stats, engine_vars, today, next_id, history_vars, out,
                   disk, confirm>>

\* TaskDialog.on_ok(): the dialog's OK with the texts of its four fields.
\* Accepted, the task is appended or updated, the store is saved and the
\* dialog closes; rejected, the dialog stays open and nothing changes.
TaskDialogOk ==
    /\ modal = <<>>
    /\ dialog # NoDialog
    /\ \E n \in DialogNames, c \in DialogCategories, p \in DialogPriorities,
          d \in DialogDues :
          IF on_ok_accepts(n, d)
          THEN /\ tasks' = IF dialog.title = "Add Task"
                           THEN on_ok_add(tasks, next_id, n, c, p, d)
                           ELSE on_ok_edit(tasks, IndexOfId(tasks, dialog.task, 1),
                                           n, c, p, d)
               /\ next_id' = IF dialog.title = "Add Task" THEN next_id + 1 ELSE next_id
               /\ disk' = save_data(tasks', stats)
               /\ dialog' = NoDialog
          ELSE UNCHANGED <<tasks, next_id, disk, dialog>>
    /\ UNCHANGED <<stats, engine_vars, today, history_vars, out, confirm>>

\* the dialog's Cancel: destroy()
TaskDialogCancel ==
    /\ modal = <<>>
    /\ dialog # NoDialog
    /\ dialog' = NoDialog
    /\ UNCHANGED <<tasks, stats, engine_vars, today, next_id, history_vars, out,
                   disk, confirm>>

\* delete_task() up to its question (lines 258-263): the handler waits in
\* askyesno, pending callbacks still run.
DeleteTask ==
    /\ modal = <<>>
    /\ dialog = NoDialog
    /\ \E i \in 1..Len(tasks) : confirm' = tasks[i].id
    /\ modal' = Append(modal, "Confirm")
    /\ UNCHANGED <<tasks, stats, timer_running, phase, remaining, work_seconds,
                   break_seconds, current_task, scheduled, today, next_id,
                   history_vars, out, disk, dialog>>

\* the question answered Yes: delete_task() goes on (lines 264-267)
ConfirmYes ==
    /\ modal # <<>>
    /\ modal[Len(modal)] = "Confirm"
    /\ tasks' = RemoveAt(tasks, IndexOfId(tasks, confirm, 1))
    /\ disk' = save_data(tasks', stats)
    /\ modal' = SubSeq(modal, 1, Len(modal) - 1)
    /\ confirm' = 0
    /\ UNCHANGED <<stats, timer_running, phase, remaining, work_seconds,
                   break_seconds, current_task, scheduled, today, next_id,
                   history_vars, out, dialog>>

\* the question answered No: delete_task() returns
ConfirmNo ==
    /\ modal # <<>>
    /\ modal[Len(modal)] = "Confirm"
    /\ modal' = SubSeq(modal, 1, Len(modal) - 1)
    /\ confirm' = 0
    /\ UNCHANGED <<tasks, stats, timer_running, phase, remaining, work_seconds,
                   break_seconds, current_task, scheduled, today, next_id,
                   history_vars, out, disk, dialog>>

\* mark_done()
MarkDone ==
    /\ modal = <<>>
    /\ dialog = NoDialog
    /\ \E i \in 1..Len(tasks) : tasks' = [tasks EXCEPT ![i].done = TRUE]
    /\ disk' = save_data(tasks', stats)
    /\ UNCHANGED <<stats, engine_vars, today, next_id, history_vars, out, dialog_vars>>

\* undo_done()
UndoDone ==
    /\ modal = <<>>
    /\ dialog = NoDialog
    /\ \E i \in 1..Len(tasks) :
          /\ tasks' = IF tasks[i].done THEN [tasks EXCEPT ![i].done = FALSE] ELSE tasks
          /\ disk' = IF tasks[i].done THEN save_data(tasks', stats) ELSE disk
    /\ UNCHANGED <<stats, engine_vars, today, next_id, history_vars, out, dialog_vars>>

\* toggle_done()
ToggleDone ==
    /\ modal = <<>>
    /\ dialog = NoDialog
    /\ \E i \in 1..Len(tasks) :
          tasks' = [tasks EXCEPT ![i].done = ~Get(tasks[i], "done", FALSE)]
    /\ disk' = save_data(tasks', stats)
    /\ UNCHANGED <<stats, engine_vars, today, next_id, history_vars, out, dialog_vars>>

\* The calendar day changes.
Midnight ==
    /\ ToOrdinal(today) - ToOrdinal(StartDay) < MaxDays
    /\ today' = NextDate(today)
    /\ UNCHANGED <<tasks, stats, engine_vars, next_id, history_vars, out, disk, dialog_vars>>

\* The store and the engine together: every handler, from the empty store,
\* sessions of one minute.
Next ==
    \/ StartPomodoro
    \/ StopPomodoro
    \/ TimerCallback
    \/ DismissWorkBox
    \/ DismissBreakBox
    \/ AddTask
    \/ EditTask
    \/ TaskDialogOk
    \/ TaskDialogCancel
    \/ DeleteTask
    \/ ConfirmYes
    \/ ConfirmNo
    \/ MarkDone
    \/ UndoDone
    \/ ToggleDone

Spec == Init /\ [][Next]_vars

\* The store's ledger: every handler again and the day changing, from the
\* empty store, with the store's own bounds.  Start is clicked here when no
\* callback of an earlier session is pending; sessions that overlap are Spec's
\* and SpecSession's.
StartStoreSession ==
    /\ scheduled = 0
    /\ StartBounded(EntryTexts, MaxScheduled, MaxStoreSessions)

AddStoreTask == AddTaskUpTo(MaxStoreTasks)

NextStore ==
    \/ StartStoreSession
    \/ StopPomodoro
    \/ TimerCallback
    \/ DismissWorkBox
    \/ DismissBreakBox
    \/ AddStoreTask
    \/ EditTask
    \/ TaskDialogOk
    \/ TaskDialogCancel
    \/ DeleteTask
    \/ ConfirmYes
    \/ ConfirmNo
    \/ MarkDone
    \/ UndoDone
    \/ ToggleDone
    \/ Midnight

SpecStore == Init /\ [][NextStore]_vars

\* The ledger over several completions: from the empty store, tasks are
\* added, renamed and deleted, sessions complete and the day changes.
\* Until the first completion is logged the entries hold "1" (or a text that
\* is rejected): the session runs its callbacks and the store changes under
\* it.  The entries "0" are accepted as well (int("0") raises nothing, lines
\* 365-370): update_timer, called by start_pomodoro itself (line 376), then
\* opens the Work box at once and the Break box after it, and the completion
\* block follows with no callback in between, so several completions, over
\* tasks of one name and on both sides of midnight, fit the bounds.  A Start
\* with "0" may fall into a running session.  The handlers that write only
\* `done` are SpecStore's.
LedgerEntryTexts == {"0"}

StartLedgerSession == StartBounded(LedgerEntryTexts, MaxScheduled, MaxLedgerSessions)

StartFirstSession ==
    /\ scheduled = 0
    /\ stats.total_pomodoros = 0
    /\ StartBounded(EntryTexts, MaxScheduled, MaxLedgerSessions)

AddLedgerTask == AddTaskUpTo(MaxLedgerTasks)

NextLedger ==
    \/ StartLedgerSession
    \/ StartFirstSession
    \/ StopPomodoro
    \/ TimerCallback
    \/ DismissWorkBox
    \/ DismissBreakBox
    \/ AddLedgerTask
    \/ EditTask
    \/ TaskDialogOk
    \/ TaskDialogCancel
    \/ DeleteTask
    \/ ConfirmYes
    \/ ConfirmNo
    \/ Midnight

SpecLedger == Init /\ [][NextLedger]_vars

\* The engine alone: a loaded store that stays as it is, every entry text,
\* and the day changing under the timer.
SessionTask ==
    [id |-> 1, name |-> "a", category |-> "Personal", priority |-> "Medium",
     due |-> <<>>, done |-> FALSE, pomodoros |-> 0]

\* a task of a data file that holds no "pomodoros" for it (read with t.get,
\* lines 235 and 397)
LoadedTask ==
    [id |-> 1, name |-> "a", category |-> "Personal", priority |-> "Medium",
     due |-> <<>>, done |-> FALSE]

InitSession ==
    /\ tasks \in {<<>>, <<SessionTask>>, <<LoadedTask>>}
    /\ stats = [total_pomodoros |-> 0, daily_streaks |-> <<>>]
    /\ timer_running = FALSE
    /\ phase = "Idle"
    /\ remaining = 0
    /\ work_seconds = 0
    /\ break_seconds = 0
    /\ current_task = ""
    /\ scheduled = 0
    /\ modal = <<>>
    /\ dialog = NoDialog
    /\ confirm = 0
    /\ today = StartDay
    /\ next_id = Len(tasks) + 1
    /\ ticks = 0
    /\ credits = 0
    /\ session_ref = 0
    /\ out = NoQuery
    /\ disk = IF tasks = <<>> THEN NoFile ELSE save_data(tasks, stats)

NextSession ==
    \/ StartSession
    \/ StopPomodoro
    \/ TimerCallback
    \/ DismissWorkBox
    \/ DismissBreakBox
    \/ Midnight

SpecSession == InitSession /\ [][NextSession]_vars

\* The same with the event loop doing its part: a pending after() callback is
\* run in the end, and the user dismisses an open message box in the end.
SpecSessionFair ==
    /\ SpecSession
    /\ WF_vars(TimerCallback)
    /\ WF_vars(DismissWorkBox)
    /\ WF_vars(DismissBreakBox)

\* The ranker alone: a store as load_data() may leave it (keys may be missing,
\* a due text may be no date), queried at an hour of the day.
Hours == {0, 5, 6, 11, 12, 17, 18, 23}
Yesterday == PrevDate(StartDay)
Tomorrow == NextDate(StartDay)

SortUniverse ==
    {[name |-> "t", category |-> "Personal", priority |-> p, due |-> d,
      done |-> dn, pomodoros |-> 0] :
        p \in {"High", "Low"},
        d \in {<<>>, Yesterday, Tomorrow, <<2026, 2, 30>>},
        dn \in BOOLEAN}

PriorityUniverse ==
    {[name |-> "t", category |-> "Other", priority |-> p, due |-> <<>>,
      done |-> FALSE, pomodoros |-> 0] :
        p \in {"High", "Medium", "Low", "Urgent"}}
    \cup {[name |-> "t", category |-> "Other", due |-> <<>>, done |-> FALSE,
           pomodoros |-> 0]}

SuggestUniverse ==
    {[name |-> "t", category |-> c, priority |-> p, due |-> d, done |-> dn,
      pomodoros |-> 0] :
        c \in {"School", "Health"},
        p \in {"High", "Low"},
        d \in {<<>>, Yesterday, StartDay},
        dn \in BOOLEAN}

\* the lists of at most n tasks of universe, the task at index i with id i
StoresOf(universe, n) ==
    {[i \in DOMAIN f |-> [k \in DOMAIN f[i] \cup {"id"} |->
                             IF k = "id" THEN i ELSE f[i][k]]] :
        f \in UNION {[1..m -> universe] : m \in 0..n}}

InitRank(stores) ==
    /\ tasks \in stores
    /\ stats = [total_pomodoros |-> 0, daily_streaks |-> <<>>]
    /\ timer_running = FALSE
    /\ phase = "Idle"
    /\ remaining = 0
    /\ work_seconds = 0
    /\ break_seconds = 0
    /\ current_task = ""
    /\ scheduled = 0
    /\ modal = <<>>
    /\ dialog = NoDialog
    /\ confirm = 0
    /\ today = StartDay
    /\ next_id = Len(tasks) + 1
    /\ ticks = 0
    /\ credits = 0
    /\ session_ref = 0
    /\ out = NoQuery
    /\ disk = save_data(tasks, stats)

\* A query reads the store and the clock and nothing of an earlier query: a
\* behaviour makes one.
\* refresh_tasks(): the list the tree shows
SortQuery ==
    /\ out = NoQuery
    /\ out' = [op |-> "sort", result |-> sort_tasks(tasks, today)]
    /\ UNCHANGED <<tasks, stats, engine_vars, today, next_id, history_vars, disk, dialog_vars>>

\* suggest_next(), the clock's hour being hour
SuggestQuery ==
    /\ out = NoQuery
    /\ \E hour \in Hours :
          out' = [op |-> "suggest", hour |-> hour,
                  result |-> suggest_task_obj(tasks, today, hour)]
    /\ UNCHANGED <<tasks, stats, engine_vars, today, next_id, history_vars, disk, dialog_vars>>

NextRank ==
    \/ SortQuery
    \/ SuggestQuery

InitSort == InitRank(StoresOf(SortUniverse, MaxSortLen))
NextSort == SortQuery
SpecSort == InitSort /\ [][NextSort]_vars

\* due dates on both sides of far_future (the start day + 9999 days is
\* 2054-03-17)
BeyondFarFuture == <<2060, 1, 1>>

DueUniverse ==
    {[name |-> "t", category |-> "Personal", priority |-> "Medium", due |-> d,
      done |-> dn, pomodoros |-> 0] :
        d \in {<<>>, Tomorrow, BeyondFarFuture},
        dn \in BOOLEAN}

InitDue == InitRank(StoresOf(DueUniverse, MaxSortLen))
SpecDue == InitDue /\ [][NextSort]_vars

InitPriority == InitRank(StoresOf(PriorityUniverse, MaxSortLen))
SpecPriority == InitPriority /\ [][NextRank]_vars

InitSuggest == InitRank(StoresOf(SuggestUniverse, MaxSuggestLen))
NextSuggest == SuggestQuery
SpecSuggest == InitSuggest /\ [][NextSuggest]_vars

\* count_overdue() alone, on the day the app starts or on a later day: the
\* task list holds every kind of due text, and records without the keys the
\* function reads with t.get.
OverdueUniverse ==
    {[name |-> "t", category |-> "Personal", priority |-> "Medium", due |-> d,
      done |-> dn, pomodoros |-> 0] :
        d \in {<<>>, Yesterday, StartDay, Tomorrow, <<2026, 2, 30>>},
        dn \in BOOLEAN}
    \cup {[name |-> "t", category |-> "Personal", priority |-> "Medium",
           pomodoros |-> 0],
          [name |-> "t", category |-> "Personal", priority |-> "Medium",
           due |-> Yesterday, pomodoros |-> 0]}

\* The summary alone, read on the day the app starts or on a later day (the
\* streak window then crosses a month's end), with loaded streak counts.
\* the days a loaded streak entry may be of: inside the window, its two ends,
\* and the days just outside it
StreakDays ==
    {NextDate(StartDay), StartDay, DaysBefore(StartDay, SummaryDays - 2),
     DaysBefore(StartDay, SummaryDays - 1), DaysBefore(StartDay, SummaryDays)}

RECURSIVE SumOver(_, _)
SumOver(f, keys) ==
    IF keys = {} THEN 0
    ELSE LET k == CHOOSE x \in keys : TRUE
         IN  f[k] + SumOver(f, keys \ {k})

\* the stats a file may hold: counts of 1..MaxStreak on some of the days
StatsUniverse ==
    {[total_pomodoros |-> SumOver(f, DOMAIN f), daily_streaks |-> f] :
        f \in UNION {[ds -> 1..MaxStreak] : ds \in SUBSET StreakDays}}

InitSummary ==
    /\ tasks \in {<<>>, <<SessionTask>>}
    /\ stats \in StatsUniverse
    /\ timer_running = FALSE
    /\ phase = "Idle"
    /\ remaining = 0
    /\ work_seconds = 0
    /\ break_seconds = 0
    /\ current_task = ""
    /\ scheduled = 0
    /\ modal = <<>>
    /\ dialog = NoDialog
    /\ confirm = 0
    /\ today = StartDay
    /\ next_id = Len(tasks) + 1
    /\ ticks = 0
    /\ credits = 0
    /\ session_ref = 0
    /\ out = NoQuery
    /\ disk = save_data(tasks, stats)

\* "Refresh Summary": the text is replaced unless refresh_summary raises
SummaryQuery ==
    /\ out = NoQuery
    /\ out' = IF refresh_summary(tasks, stats, today) = KeyError THEN out
              ELSE [op |-> "summary", day |-> today,
                    result |-> refresh_summary(tasks, stats, today)]
    /\ UNCHANGED <<tasks, stats, engine_vars, today, next_id, history_vars, disk, dialog_vars>>

NextSummary ==
    \/ SummaryQuery
    \/ Midnight

SpecSummary == InitSummary /\ [][NextSummary]_vars

\* count_overdue() is called
OverdueQuery ==
    /\ out = NoQuery
    /\ out' = [op |-> "overdue", day |-> today,
               result |-> count_overdue(tasks, today)]
    /\ UNCHANGED <<tasks, stats, engine_vars, today, next_id, history_vars, disk, dialog_vars>>

NextOverdue ==
    \/ OverdueQuery
    \/ Midnight

InitOverdue == InitRank(StoresOf(OverdueUniverse, MaxOverdueLen))
SpecOverdue == InitOverdue /\ [][NextOverdue]_vars

\* ============================================================= properties
Ids(task_list) == {task_list[i].id : i \in 1..Len(task_list)}

\* the pomodoros of the task with id tid
PomodorosOf(task_list, tid) ==
    Get(task_list[IndexOfId(task_list, tid, 1)], "pomodoros", 0)

StreakOf(st, day) ==
    IF today_str(day) \in DOMAIN st.daily_streaks
    THEN st.daily_streaks[today_str(day)] ELSE 0

\* no task that stays in the store changes its pomodoros in the step
PomodorosKept ==
    \A tid \in Ids(tasks) \cap Ids(tasks') :
        PomodorosOf(tasks', tid) = PomodorosOf(tasks, tid)

TopBox(m) == IF m = <<>> THEN "" ELSE m[Len(m)]

\* C1: while a session runs, at most one update_timer activation drives it:
\* one callback pending in the after() queue or one activation waiting in its
\* message box, never two (so one decrement per elapsed second).
C1_SingleCallbackChain ==
    timer_running => scheduled + Len(modal) <= 1

\* C2: a session started with positive durations gives its "work complete"
\* notice at tick w*60 exactly and its "break complete" notice b*60 ticks
\* later, the first leads into Break and the second to Idle, and the session
\* commits exactly once: total_pomodoros, today's streak entry and the
\* referenced task's pomodoros each go up by exactly 1.
C2_SessionLifecycle ==
    [][ (work_seconds' > 0 /\ break_seconds' > 0) =>
        /\ Len(modal') > Len(modal)
            => /\ TopBox(modal') = "Work" => ticks' = work_seconds'
               /\ TopBox(modal') = "Break" => ticks' = break_seconds'
        /\ (Len(modal') < Len(modal) /\ TopBox(modal) = "Work")
            => phase' = "Break"
        /\ (credits' = credits + 1)
            => /\ phase' = "Idle"
               /\ stats'.total_pomodoros = stats.total_pomodoros + 1
               /\ StreakOf(stats', today) = StreakOf(stats, today) + 1
               /\ session_ref \in Ids(tasks)
                    => PomodorosOf(tasks', session_ref)
                          = PomodorosOf(tasks, session_ref) + 1
        /\ credits' <= 1
      ]_vars

\* C3: every session in progress was started with positive work and break
\* durations: a Start with a zero or negative duration is refused.
C3_PositiveDurations ==
    (timer_running \/ modal # <<>>) => (work_seconds > 0 /\ break_seconds > 0)

\* C4: in every state, a Start that is rejected (no task name, or a duration
\* text that is not a positive integer) would leave the engine as it is, and
\* an add or edit that is rejected would leave the task list as it is.
C4_RejectionMutatesNothing ==
    /\ \A n \in StudyVarChoices(tasks) \cup {""}, w \in SessionEntryTexts,
          b \in SessionEntryTexts :
          (\/ n = ""
           \/ ~ParseMinutes(w, DefaultWorkMinutes).ok
           \/ ~ParseMinutes(b, DefaultBreakMinutes).ok)
             => start_pomodoro(Engine, n, w, b) = Engine
    /\ \A n \in DialogNames, d \in DialogDues :
          (Strip(n) = "" \/ (d # <<>> /\ parse_date(d) = None))
             => /\ on_ok_add(tasks, next_id, n, "Personal", "Medium", d) = tasks
                /\ \A i \in 1..Len(tasks) :
                      on_ok_edit(tasks, i, n, "Personal", "Medium", d) = tasks

\* C5: Stop leaves the engine Idle with remaining 0, and from Stop until the
\* next Start no step commits credit: total_pomodoros, daily_streaks and the
\* pomodoros of every task stay as they are, whatever callback of the stopped
\* session still runs, and no completion notice opens.
C5_StopDiscards ==
    [][ /\ StopPomodoro
            => (phase' = "Idle" /\ remaining' = 0 /\ ~timer_running'
                /\ stats' = stats /\ tasks' = tasks)
        /\ (~timer_running /\ modal = <<>> /\ ~timer_running')
            => (stats' = stats /\ PomodorosKept /\ modal' = <<>>)
      ]_vars

\* a session was started and stopped in its Work phase, and the callback it
\* had pending has run since
C5_Witness ==
    /\ ~timer_running /\ phase = "Idle" /\ remaining = 0
    /\ current_task # "" /\ work_seconds > 0 /\ break_seconds > 0
    /\ credits = 0 /\ scheduled = 0 /\ modal = <<>>

\* C6: when the task a session was started on is no longer in the store at
\* the session's completion, the completion adds 1 to total_pomodoros and to
\* today's streak entry and changes the pomodoros of no task in the store.
C6_DeletedTaskSkipped ==
    [][ (credits' = credits + 1 /\ session_ref # 0 /\ session_ref \notin Ids(tasks))
            => /\ stats'.total_pomodoros = stats.total_pomodoros + 1
               /\ StreakOf(stats', today) = StreakOf(stats, today) + 1
               /\ tasks' = tasks
      ]_vars

\* ------------------------------------------------------------ the ranker
IsDone(t) == Get(t, "done", FALSE)

\* a task's due date or the far-future sentinel, and its priority rank
DueOrFarFuture(t) == SortKey(t, today)[2]
RankOf(t) == SortKey(t, today)[3]

SameSortKey(a, b) ==
    IsDone(a) = IsDone(b) /\ DueOrFarFuture(a) = DueOrFarFuture(b) /\ RankOf(a) = RankOf(b)

\* C7: the sorted list is a permutation of the store, every not-done task
\* comes before every done task, each group is non-decreasing by (due date or
\* far-future sentinel, priority rank), and tasks of equal key keep their
\* input order.
C7_SortTasks ==
    out.op = "sort" =>
        LET r == out.result
        IN  /\ Len(r) = Len(tasks)
            /\ \A i \in 1..Len(tasks) : \E j \in 1..Len(r) : r[j] = tasks[i]
            /\ \A i, j \in 1..Len(r) : i < j =>
                  /\ ~(IsDone(r[i]) /\ ~IsDone(r[j]))
                  /\ IsDone(r[i]) = IsDone(r[j]) =>
                        \/ DueOrFarFuture(r[i]) < DueOrFarFuture(r[j])
                        \/ /\ DueOrFarFuture(r[i]) = DueOrFarFuture(r[j])
                           /\ RankOf(r[i]) <= RankOf(r[j])
                  /\ SameSortKey(r[i], r[j]) => r[i].id < r[j].id

\* a store of three tasks, a done one first and two of equal key among them,
\* has been sorted into another order
C7_Witness ==
    /\ out.op = "sort"
    /\ Len(tasks) = 3
    /\ IsDone(tasks[1]) /\ ~IsDone(tasks[2])
    /\ \E i, j \in 1..3 : i < j /\ SameSortKey(tasks[i], tasks[j])
    /\ out.result # tasks

\* the rank the claim gives: High 1, Medium 2, Low 3, anything else 3
ClaimedRank(t) ==
    IF "priority" \notin DOMAIN t THEN 3
    ELSE IF t.priority = "High" THEN 1
    ELSE IF t.priority = "Medium" THEN 2
    ELSE 3

\* the same with a missing priority taken as Medium
AmendedRank(t) ==
    IF "priority" \notin DOMAIN t THEN 2 ELSE ClaimedRank(t)

\* t with its priority set to p
WithPriority(t, p) ==
    [k \in DOMAIN t \cup {"priority"} |-> IF k = "priority" THEN p ELSE t[k]]

\* rank(_) is the rank sort_tasks and suggest_task_obj both use: it is the
\* third part of the sort key, it is what the score adds to the due term and
\* the bonus, and the sorted list of tasks that differ in priority alone is in
\* its order.
RankIs(rank(_)) ==
    /\ out.op \in {"sort", "suggest"} => \A i \in 1..Len(tasks) :
          LET t == tasks[i]
          IN  /\ SortKey(t, today)[3] = rank(t)
              /\ \A h \in Hours :
                    /\ Score(t, today, h)
                          = Score(WithPriority(t, "High"), today, h) + 10 * (rank(t) - 1)
                    /\ Score(WithPriority(t, "High"), today, h) = 10 * (NoDueDays + 1)
    /\ out.op = "sort" =>
          \A i, j \in 1..Len(out.result) : i < j =>
              \/ rank(out.result[i]) < rank(out.result[j])
              \/ /\ rank(out.result[i]) = rank(out.result[j])
                 /\ out.result[i].id < out.result[j].id
    /\ (out.op = "suggest" /\ tasks # <<>>) =>
          \A i \in 1..Len(tasks) : rank(out.result) <= rank(tasks[i])

\* C8 as claimed: High 1, Medium 2, Low 3, and an unknown or a missing
\* priority ranked as Low (3), in sort_tasks and in suggest_task_obj.
C8_RankMissingIsLow == RankIs(ClaimedRank)

\* C8 as amended: High 1, Medium 2, Low 3, an unknown priority ranked as Low
\* (3) and a missing priority ranked as Medium (2), in sort_tasks and in
\* suggest_task_obj.
C8_PriorityRank == RankIs(AmendedRank)

\* a task with no priority has been sorted before the Low and the unknown
\* priority tasks that preceded it in the store
C8_Witness ==
    /\ out.op = "sort"
    /\ Len(tasks) = 3
    /\ Get(tasks[1], "priority", "") = "Low"
    /\ Get(tasks[2], "priority", "") = "Urgent"
    /\ "priority" \notin DOMAIN tasks[3]
    /\ out.result[1] = tasks[3]

\* due strictly before today
IsOverdue(t) ==
    LET d == parse_date(Get(t, "due", <<>>))
    IN  d # None /\ d.ordinal < ToOrdinal(today)

\* C9: whenever a pending task is overdue, the suggested task is overdue,
\* whatever the priorities, the categories and the hour.
C9_OverdueFirst ==
    (out.op = "suggest" /\ \E i \in 1..Len(tasks) : ~IsDone(tasks[i]) /\ IsOverdue(tasks[i]))
        => (out.result # None /\ IsOverdue(out.result) /\ ~IsDone(out.result))

\* in the morning an overdue Low-priority task of an unboosted category has
\* been suggested over a High-priority task of a boosted category due today
C9_Witness ==
    /\ out.op = "suggest"
    /\ out.hour = 6
    /\ out.result # None
    /\ IsOverdue(out.result)
    /\ out.result.priority = "Low"
    /\ out.result.category = "Health"
    /\ \E i \in 1..Len(tasks) :
          /\ ~IsDone(tasks[i]) /\ ~IsOverdue(tasks[i])
          /\ tasks[i].priority = "High" /\ tasks[i].category = "School"
          /\ tasks[i].due = StartDay

\* C10: the suggestion is none exactly when no task is not done; otherwise it
\* is a not-done task of the store whose score is minimal among the not-done
\* tasks and, among those of that score, the earliest in store order.
C10_SuggestMinimal ==
    out.op = "suggest" =>
        LET r == out.result
            pend == {i \in 1..Len(tasks) : ~IsDone(tasks[i])}
        IN  /\ (r = None) <=> (pend = {})
            /\ r # None =>
                  /\ \E i \in pend : tasks[i] = r
                  /\ \A i \in pend :
                        \/ Score(r, today, out.hour) < Score(tasks[i], today, out.hour)
                        \/ /\ Score(r, today, out.hour) = Score(tasks[i], today, out.hour)
                           /\ r.id <= tasks[i].id

\* two pending tasks that differ in category and have the same score: the
\* first in store order was suggested
C10_Witness ==
    /\ out.op = "suggest"
    /\ Len(tasks) = 2
    /\ ~IsDone(tasks[1]) /\ ~IsDone(tasks[2])
    /\ tasks[1].category # tasks[2].category
    /\ Score(tasks[1], today, out.hour) = Score(tasks[2], today, out.hour)
    /\ out.result = tasks[1]

\* ------------------------------------------------------------ the summary
\* the task has a due date: a due text that names a calendar date
HasDueDate(t) == parse_date(Get(t, "due", <<>>)) # None

\* date a is before date b, field by field
DateBefore(a, b) ==
    \/ a[1] < b[1]
    \/ a[1] = b[1] /\ a[2] < b[2]
    \/ a[1] = b[1] /\ a[2] = b[2] /\ a[3] < b[3]

\* C11: count_overdue() is the number of tasks that are not done, have a due
\* date, and are due strictly before the day of the call: a task with no due
\* date, a done task and a task due that very day are not counted.
C11_CountOverdue ==
    out.op = "overdue" =>
        out.result
            = Cardinality({i \in 1..Len(tasks) :
                              /\ ~IsDone(tasks[i])
                              /\ HasDueDate(tasks[i])
                              /\ DateBefore(tasks[i].due, out.day)})

\* of a task due today, a done task due yesterday and a pending task due
\* yesterday, one was counted
C11_Witness ==
    /\ out.op = "overdue"
    /\ out.day = StartDay
    /\ Len(tasks) = 3
    /\ ~IsDone(tasks[1]) /\ Get(tasks[1], "due", <<>>) = StartDay
    /\ IsDone(tasks[2]) /\ Get(tasks[2], "due", <<>>) = Yesterday
    /\ ~IsDone(tasks[3]) /\ Get(tasks[3], "due", <<>>) = Yesterday
    /\ out.result = 1

\* ------------------------------------------------------------ the store
\* C12: between event handlers the document in DATA_FILE, read as load_data
\* reads it, is the tasks and stats in memory: every handler that changes
\* either has written them before it returns.
C12_PersistedAfterMutation ==
    load_data(disk) = [tasks |-> tasks, stats |-> stats]

\* a session was committed to a task and a task was marked done, and the
\* file holds both
C12_Witness ==
    /\ disk.exists
    /\ disk.data.stats.total_pomodoros = 1
    /\ \E i \in 1..Len(disk.data.tasks) : disk.data.tasks[i].pomodoros = 1
    /\ \E i \in 1..Len(disk.data.tasks) : disk.data.tasks[i].done
    /\ phase = "Idle" /\ modal = <<>>

IdSeq(task_list) == [i \in 1..Len(task_list) |-> task_list[i].id]

\* C13: in every step, each task that stays in the store keeps its id (the
\* ids of the store are the old ones in their order, with at most one removed
\* or one new id appended) and its pomodoros does not go down, and neither
\* total_pomodoros nor any daily_streaks count goes down.
C13_CountersMonotone ==
    [][ /\ \/ IdSeq(tasks') = IdSeq(tasks)
           \/ \E n \in Ids(tasks') \ Ids(tasks) :
                  IdSeq(tasks') = Append(IdSeq(tasks), n)
           \/ \E i \in 1..Len(tasks) : IdSeq(tasks') = RemoveAt(IdSeq(tasks), i)
        /\ \A tid \in Ids(tasks) \cap Ids(tasks') :
              PomodorosOf(tasks', tid) >= PomodorosOf(tasks, tid)
        /\ stats'.total_pomodoros >= stats.total_pomodoros
        /\ \A d \in DOMAIN stats.daily_streaks :
              /\ d \in DOMAIN stats'.daily_streaks
              /\ stats'.daily_streaks[d] >= stats.daily_streaks[d]
      ]_vars

\* a task credited with a pomodoro under the session's name has been renamed
\* since and still has it
C13_Witness ==
    /\ stats.total_pomodoros = 1 /\ credits = 1
    /\ \E i \in 1..Len(tasks) :
          tasks[i].pomodoros = 1 /\ tasks[i].name # current_task

\* ------------------------------------------------------------ the engine
\* C14: a timer callback that runs while timer_running is false changes
\* nothing: phase, remaining, timer_running, tasks and stats stay as they are,
\* no message box opens, and the callback schedules no successor (the pending
\* callbacks are one fewer).
C14_IdleTickIsNoOp ==
    [][ (TimerCallback /\ ~timer_running)
            => /\ phase' = phase /\ remaining' = remaining
               /\ timer_running' = timer_running
               /\ tasks' = tasks /\ stats' = stats
               /\ modal' = modal
               /\ scheduled' = scheduled - 1
      ]_vars

\* a session with a break of a minute was running when a Start with a work
\* text of "0" and a bad break text was rejected; the callback the session
\* had pending has run since, and nothing was committed
C14_Witness ==
    /\ ~timer_running /\ phase = "Idle" /\ remaining = 0
    /\ work_seconds = 0 /\ break_seconds > 0
    /\ scheduled = 0 /\ modal = <<>>
    /\ credits = 0 /\ stats.total_pomodoros = 0

\* ------------------------------------------------------ the ranker, again
\* C15: in the sorted list, among the tasks of one completion group, no task
\* without a due date comes before a task that has one.
C15_NoDueLast ==
    out.op = "sort" =>
        \A i, j \in 1..Len(out.result) :
            (i < j /\ IsDone(out.result[i]) = IsDone(out.result[j]))
                => ~(Get(out.result[i], "due", <<>>) = <<>> /\ HasDueDate(out.result[j]))

\* ------------------------------------------------------ the summary, again
\* C16: a summary shows 7 streak lines, the last one for today and each of
\* the others for the day before the next one's, each with the count that
\* daily_streaks holds for its day or 0 when it holds none, and computing it
\* leaves tasks and stats as they were.
C16_StreakWindow ==
    [][ (out.op = "none" /\ out'.op = "summary")
            => LET w == out'.result.last7
               IN  /\ Len(w) = 7
                   /\ w[7].day = today
                   /\ \A k \in 1..6 : NextDate(w[k].day) = w[k + 1].day
                   /\ \A k \in 1..7 :
                         w[k].count = IF w[k].day \in DOMAIN stats.daily_streaks
                                      THEN stats.daily_streaks[w[k].day]
                                      ELSE 0
                   /\ tasks' = tasks
                   /\ stats' = stats
      ]_vars

\* a summary made on the first of November: its window starts in October,
\* shows a recorded count and a zero, and leaves out the entry of the day
\* before its first
C16_Witness ==
    /\ out.op = "summary"
    /\ out.day = <<2026, 11, 1>>
    /\ out.result.last7[1].day = <<2026, 10, 26>>
    /\ out.result.last7[1].count = 2
    /\ out.result.last7[7].count = 0
    /\ <<2026, 10, 25>> \in DOMAIN stats.daily_streaks

\* ------------------------------------------------------ the session's credit
\* C17: when a session completes and the task its Start referred to is still
\* in the store, that task's pomodoros goes up by exactly 1 and no other
\* task's pomodoros changes, whatever was edited or marked done meanwhile.
C17_CreditFollowsTask ==
    [][ (credits' = credits + 1 /\ session_ref \in Ids(tasks))
            => /\ PomodorosOf(tasks', session_ref)
                     = PomodorosOf(tasks, session_ref) + 1
               /\ \A tid \in Ids(tasks) \ {session_ref} :
                     PomodorosOf(tasks', tid) = PomodorosOf(tasks, tid)
      ]_vars

SumOfPomodoros(task_list) ==
    SumOver([i \in 1..Len(task_list) |-> Get(task_list[i], "pomodoros", 0)],
            1..Len(task_list))

\* C18: from the empty store on, total_pomodoros is the sum of the
\* daily_streaks counts, and the pomodoros of the tasks in the store add up
\* to no more than total_pomodoros.
C18_LedgerConsistent ==
    /\ stats.total_pomodoros = SumOver(stats.daily_streaks, DOMAIN stats.daily_streaks)
    /\ SumOfPomodoros(tasks) <= stats.total_pomodoros

\* two completions were committed, one on the start day and one on the day
\* after it, while the store held two tasks of one name: the first of them
\* was credited both times, the second never
C18_Witness ==
    /\ stats.total_pomodoros = 2
    /\ StreakOf(stats, StartDay) = 1
    /\ StreakOf(stats, NextDate(StartDay)) = 1
    /\ Len(tasks) = 2
    /\ tasks[1].name = tasks[2].name
    /\ tasks[1].name = current_task
    /\ tasks[1].pomodoros = 2
    /\ tasks[2].pomodoros = 0

\* ------------------------------------------------------ the session's course
\* a session of positive durations is in progress and has committed nothing
SessionStarted ==
    timer_running /\ work_seconds > 0 /\ break_seconds > 0 /\ credits = 0

\* Stop, or a Start that was rejected, has ended the session
SessionStopped == session_ref = 0

\* the steps of a session of positive durations: Work is entered by a Start
\* only (never from Break), Idle is left by a Start only, and the session
\* commits at most once
SessionSteps ==
    (work_seconds' > 0 /\ break_seconds' > 0) =>
        /\ (phase # "Work" /\ phase' = "Work") => StartSession
        /\ (phase = "Idle" /\ phase' # "Idle") => StartSession
        /\ credits' <= 1

\* a session that is started and not stopped is Idle with one commit in the end
SessionEnds ==
    SessionStarted ~> (SessionStopped \/ (phase = "Idle" /\ credits = 1))

\* C19: with callbacks delivered and boxes dismissed in the end, a session
\* started with positive durations and never stopped ends Idle with exactly
\* one pomodoro committed, having gone from Work to Break and never back, and
\* the engine never leaves Idle without a new Start.
C19_SessionCompletesOnce == [][SessionSteps]_vars /\ SessionEnds

====
